---- MODULE Spec2Model ----
(***************************************************************************)
(* Model of the hex-string crate (src/src/lib.rs).                         *)
(*                                                                         *)
(* A Rust `char` is modelled by its Unicode code point, a `&str`/`String`  *)
(* by the sequence of its characters' code points, a `u8` by an integer in *)
(* 0..255 and a `&[u8]`/`Vec<u8>` by a sequence of such integers.          *)
(*   '0'..'9' = 48..57   'a'..'f' = 97..102   'g' = 103   'A'..'F' = 65..70 *)
(*   'e-acute' = 233 (2 bytes in UTF-8)   euro sign = 8364 (3 bytes)        *)
(* A `Result` (or the outcome of a call that may panic) is a record        *)
(* [ok, err, carried, val]: `val` is the returned value, `err` the error   *)
(* kind and `carried` the tuple of the error's payload.                    *)
(***************************************************************************)
EXTENDS Integers, Sequences, FiniteSets, TLC

VARIABLES input, h, ctor, op, arg, res, from

vars == <<input, h, ctor, op, arg, res, from>>

(* ------------------------------ bounds -------------------------------- *)

\* longest text drawn over Alphabet
MaxLen == 4
\* longest byte sequence drawn over SampleBytes
MaxBytes == 3

(* ------------------------------ results ------------------------------- *)

Ok(v) == [ok |-> TRUE, err |-> "none", carried |-> <<>>, val |-> v]

Err(e, c) == [ok |-> FALSE, err |-> e, carried |-> c, val |-> <<>>]

\* `expect` on an Err, or an out-of-bounds index: the call unwinds
Panic == Err("panic", <<>>)

NoResult == Err("none", <<>>)

(* ------------------------- u8 bit arithmetic -------------------------- *)

RECURSIVE BitAnd(_, _)
BitAnd(a, b) ==
  IF a = 0 \/ b = 0 THEN 0
  ELSE 2 * BitAnd(a \div 2, b \div 2) + (IF a % 2 = 1 /\ b % 2 = 1 THEN 1 ELSE 0)

RECURSIVE BitOr(_, _)
BitOr(a, b) ==
  IF a = 0 THEN b
  ELSE IF b = 0 THEN a
  ELSE 2 * BitOr(a \div 2, b \div 2) + (IF a % 2 = 1 \/ b % 2 = 1 THEN 1 ELSE 0)

\* u8 >> n
Shr(a, n) == a \div (2 ^ n)

\* u8 << n : the bits shifted out of the byte are lost
Shl(a, n) == (a * (2 ^ n)) % 256

(* --------------------------- nibble codec ----------------------------- *)

hexchar_to_nibble_upper(c) ==
  CASE c = 48 -> Ok(0)
    [] c = 49 -> Ok(1)
    [] c = 50 -> Ok(2)
    [] c = 51 -> Ok(3)
    [] c = 52 -> Ok(4)
    [] c = 53 -> Ok(5)
    [] c = 54 -> Ok(6)
    [] c = 55 -> Ok(7)
    [] c = 56 -> Ok(8)
    [] c = 57 -> Ok(9)
    [] c = 97 \/ c = 65 -> Ok(10)
    [] c = 98 \/ c = 66 -> Ok(11)
    [] c = 99 \/ c = 67 -> Ok(12)
    [] c = 100 \/ c = 68 -> Ok(13)
    [] c = 101 \/ c = 69 -> Ok(14)
    [] c = 102 \/ c = 70 -> Ok(15)
    [] OTHER -> Err("InvalidCharacter", <<c>>)

hexchar_to_nibble(c) ==
  CASE c = 48 -> Ok(0)
    [] c = 49 -> Ok(1)
    [] c = 50 -> Ok(2)
    [] c = 51 -> Ok(3)
    [] c = 52 -> Ok(4)
    [] c = 53 -> Ok(5)
    [] c = 54 -> Ok(6)
    [] c = 55 -> Ok(7)
    [] c = 56 -> Ok(8)
    [] c = 57 -> Ok(9)
    [] c = 97 -> Ok(10)
    [] c = 98 -> Ok(11)
    [] c = 99 -> Ok(12)
    [] c = 100 -> Ok(13)
    [] c = 101 -> Ok(14)
    [] c = 102 -> Ok(15)
    [] OTHER -> Err("InvalidCharacter", <<c>>)

nibble_to_hexchar(b) ==
  CASE b = 0 -> Ok(48)
    [] b = 1 -> Ok(49)
    [] b = 2 -> Ok(50)
    [] b = 3 -> Ok(51)
    [] b = 4 -> Ok(52)
    [] b = 5 -> Ok(53)
    [] b = 6 -> Ok(54)
    [] b = 7 -> Ok(55)
    [] b = 8 -> Ok(56)
    [] b = 9 -> Ok(57)
    [] b = 10 -> Ok(97)
    [] b = 11 -> Ok(98)
    [] b = 12 -> Ok(99)
    [] b = 13 -> Ok(100)
    [] b = 14 -> Ok(101)
    [] b = 15 -> Ok(102)
    [] OTHER -> Err("InvalidNibble", <<b>>)

\* the two nibbles in the wrong order
u8_to_hex_string_swapped(b) ==
  LET upper == nibble_to_hexchar(Shr(BitAnd(b, 240), 4))
      lower == nibble_to_hexchar(BitAnd(b, 15))
  IN  IF ~upper.ok \/ ~lower.ok THEN Panic
      ELSE Ok(<<lower.val, upper.val>>)

\* the high nibble masked but not shifted down
u8_to_hex_string_noshift(b) ==
  LET upper == nibble_to_hexchar(BitAnd(b, 240))
      lower == nibble_to_hexchar(BitAnd(b, 15))
  IN  IF ~upper.ok \/ ~lower.ok THEN Panic
      ELSE Ok(<<upper.val, lower.val>>)

\* [upper, lower], or the panic of `expect` when a nibble does not convert
u8_to_hex_string(b) ==
  LET upper == nibble_to_hexchar(Shr(BitAnd(b, 240), 4))
      lower == nibble_to_hexchar(BitAnd(b, 15))
  IN  IF ~upper.ok \/ ~lower.ok THEN Panic
      ELSE Ok(<<upper.val, lower.val>>)

(* ----------------------------- HexString ------------------------------ *)

\* char::len_utf8 of a code point
len_utf8(c) ==
  IF c < 128 THEN 1 ELSE IF c < 2048 THEN 2 ELSE IF c < 65536 THEN 3 ELSE 4

\* str::len : the length of the text in bytes of UTF-8
RECURSIVE str_len(_)
str_len(s) == IF s = <<>> THEN 0 ELSE len_utf8(Head(s)) + str_len(Tail(s))

\* the HashSet without its last insert
valid_chars_missing_f ==
  {48, 49, 50, 51, 52, 53, 54, 55, 56, 57, 97, 98, 99, 100, 101}

valid_chars ==
  {48, 49, 50, 51, 52, 53, 54, 55, 56, 57, 97, 98, 99, 100, 101, 102}

\* the `for c in s.chars()` loop, from character i on
RECURSIVE scan_chars(_, _)
scan_chars(s, i) ==
  IF i > Len(s) THEN Ok(s)
  ELSE IF s[i] \notin valid_chars THEN Err("InvalidCharacter", <<s[i]>>)
  ELSE scan_chars(s, i + 1)

\* the character scan without the length check
from_string_nolen(s) == scan_chars(s, 1)

\* the character scan ahead of the length check
from_string_scanfirst(s) ==
  LET r == scan_chars(s, 1)
  IN  IF ~r.ok THEN r
      ELSE IF str_len(s) % 2 # 0 THEN Err("InvalidStringLength", <<>>)
      ELSE r

from_string(s) ==
  IF str_len(s) % 2 # 0 THEN Err("InvalidStringLength", <<>>)
  ELSE scan_chars(s, 1)

\* the fold over the mapped bytes, from byte i on, with accumulator acc
RECURSIVE fold_push(_, _, _)
fold_push(v, i, acc) ==
  IF i > Len(v) THEN Ok(acc)
  ELSE LET s == u8_to_hex_string(v[i])
       IN  IF ~s.ok THEN Panic
           ELSE fold_push(v, i + 1, Append(Append(acc, s.val[1]), s.val[2]))

from_bytes(v) == fold_push(v, 1, <<>>)

as_string(text) == text

as_str(text) == text

\* i.by_ref().take(2).collect() : up to two characters off the iterator
take2(rest) == SubSeq(rest, 1, IF Len(rest) < 2 THEN Len(rest) ELSE 2)

\* the `while octet.len() != 0` loop over the rest of the iterator
RECURSIVE octets_of(_)
octets_of(rest) ==
  LET octet == take2(rest)
  IN  IF Len(octet) = 0 THEN <<>>
      ELSE <<octet>> \o octets_of(SubSeq(rest, Len(octet) + 1, Len(rest)))

\* shifts the upper nibble by three
to_byte_shl3(octet) ==
  IF Len(octet) < 2 THEN Panic
  ELSE LET upper == hexchar_to_nibble(octet[1])
           lower == hexchar_to_nibble(octet[2])
       IN  IF ~upper.ok \/ ~lower.ok THEN Panic
           ELSE Ok(BitOr(Shl(upper.val, 3), lower.val))

\* octet[1] out of bounds and `expect` on an Err both panic
to_byte(octet) ==
  IF Len(octet) < 2 THEN Panic
  ELSE LET upper == hexchar_to_nibble(octet[1])
           lower == hexchar_to_nibble(octet[2])
       IN  IF ~upper.ok \/ ~lower.ok THEN Panic
           ELSE Ok(BitOr(Shl(upper.val, 4), lower.val))

\* octets.into_iter().map(to_byte).collect(), from octet i on
RECURSIVE collect_bytes(_, _, _)
collect_bytes(octets, i, acc) ==
  IF i > Len(octets) THEN Ok(acc)
  ELSE LET b == to_byte(octets[i])
       IN  IF ~b.ok THEN Panic
           ELSE collect_bytes(octets, i + 1, Append(acc, b.val))

as_bytes(text) == collect_bytes(octets_of(text), 1, <<>>)

\* a parse that refuses the empty text
from_str_nonempty(s) ==
  IF s = <<>> THEN Err("InvalidStringLength", <<>>) ELSE from_string(s)

from_str(s) == from_string(s)

(* ------------------------------ inputs -------------------------------- *)

\* '0' '9' 'a' 'f' 'g' 'A' e-acute euro
Alphabet == {48, 57, 97, 102, 103, 65, 233, 8364}

\* string_repr() of the tests
string_repr ==
  <<99,98,98,98,99,54,101,49,57,98,101,54,51,101,102,99,
    100,100,55,56,51,50,55,100,50,100,102,56,53,48,100,57,
    50,51,55,53,97,102,54,97,48,51,57,51,52,102,51,53,
    101,52,55,98,100,48,50,100,49,98,52,57,54,99,48,99>>

\* byte_repr() of the tests
byte_repr ==
  <<203, 187, 198, 225, 155, 230, 62, 252, 221, 120, 50, 125, 45, 248, 80, 217,
    35, 117, 175, 106, 3, 147, 79, 53, 228, 123, 208, 45, 27, 73, 108, 12>>

\* "abcdefg"
abcdefg == <<97, 98, 99, 100, 101, 102, 103>>

\* "abb"
abb == <<97, 98, 98>>

\* the texts of the tests, and "AB", "cbbbc6e1", "0123456789abcdef"
TestTexts ==
  { string_repr, abcdefg, abb, <<65, 66>>,
    <<99, 98, 98, 98, 99, 54, 101, 49>>,
    <<48, 49, 50, 51, 52, 53, 54, 55, 56, 57, 97, 98, 99, 100, 101, 102>> }

Texts == UNION {[1..n -> Alphabet] : n \in 0..MaxLen} \cup TestTexts

Byte == 0..255

SampleBytes == {0, 9, 10, 15, 16, 171, 203, 255}

ByteSeqs ==
  UNION {[1..n -> SampleBytes] : n \in 0..MaxBytes}
    \cup {<<b>> : b \in Byte}
    \cup {byte_repr, <<203, 187, 198, 225>>}

Chars == 0..127 \cup Alphabet

Inputs ==
  [kind : {"text"}, val : Texts]
    \cup [kind : {"bytes"}, val : ByteSeqs]
    \cup [kind : {"char"}, val : Chars]
    \cup [kind : {"u8"}, val : Byte]

(* --------------------------- state machine ---------------------------- *)

\* h is the HexString held by the caller: <<>> for none, <<text>> for
\* HexString(text).  ctor names the constructor that was called last, op
\* the last call, arg its argument tuple, res its outcome.  from is the
\* argument of the codec call whose result was fed to the last call.
Init ==
  /\ input \in Inputs
  /\ h = <<>>
  /\ ctor = "none"
  /\ op = "init"
  /\ arg = <<>>
  /\ res = NoResult
  /\ from = <<>>

Construct(name, r) ==
  /\ h' = IF r.ok THEN <<r.val>> ELSE <<>>
  /\ ctor' = name
  /\ op' = name
  /\ arg' = <<input.val>>
  /\ res' = r
  /\ from' = <<>>
  /\ UNCHANGED input

FromString ==
  /\ input.kind = "text"
  /\ Construct("from_string", from_string(input.val))

FromStr ==
  /\ input.kind = "text"
  /\ Construct("from_str", from_str(input.val))

FromBytes ==
  /\ input.kind = "bytes"
  /\ Construct("from_bytes", from_bytes(input.val))

Access(name, r) ==
  /\ op' = name
  /\ arg' = h
  /\ res' = r
  /\ from' = <<>>
  /\ UNCHANGED <<input, h, ctor>>

AsString ==
  /\ h # <<>>
  /\ Access("as_string", Ok(as_string(h[1])))

AsStr ==
  /\ h # <<>>
  /\ Access("as_str", Ok(as_str(h[1])))

AsBytes ==
  /\ h # <<>>
  /\ Access("as_bytes", as_bytes(h[1]))

Call(name, a, r, origin) ==
  /\ op' = name
  /\ arg' = <<a>>
  /\ res' = r
  /\ from' = origin
  /\ UNCHANGED <<input, h, ctor>>

HexcharToNibble ==
  /\ input.kind = "char"
  /\ Call("hexchar_to_nibble", input.val, hexchar_to_nibble(input.val), <<>>)

NibbleToHexchar ==
  /\ input.kind = "u8"
  /\ Call("nibble_to_hexchar", input.val, nibble_to_hexchar(input.val), <<>>)

U8ToHexString ==
  /\ input.kind = "u8"
  /\ Call("u8_to_hex_string", input.val, u8_to_hex_string(input.val), <<>>)

\* the character a nibble converted to, converted back
HexcharToNibbleOfResult ==
  /\ op = "nibble_to_hexchar"
  /\ res.ok
  /\ from = <<>>
  /\ Call("hexchar_to_nibble", res.val, hexchar_to_nibble(res.val), arg)

\* the nibble a character converted to, converted back
NibbleToHexcharOfResult ==
  /\ op = "hexchar_to_nibble"
  /\ res.ok
  /\ from = <<>>
  /\ Call("nibble_to_hexchar", res.val, nibble_to_hexchar(res.val), arg)

Next ==
  \/ FromString
  \/ FromStr
  \/ FromBytes
  \/ AsString
  \/ AsStr
  \/ AsBytes
  \/ HexcharToNibble
  \/ NibbleToHexchar
  \/ U8ToHexString
  \/ HexcharToNibbleOfResult
  \/ NibbleToHexcharOfResult

Spec == Init /\ [][Next]_vars

(* ------------------------- reference notions -------------------------- *)

\* the characters 0-9 and a-f
HexDigits == (48..57) \cup (97..102)

\* the hex digit of a value in 0..15
HexDigitOf(n) == IF n < 10 THEN 48 + n ELSE 87 + n

\* the value of a hex digit
NibbleOf(c) == IF c <= 57 THEN c - 48 ELSE c - 87

AllHex(s) == \A i \in 1..Len(s) : s[i] \in HexDigits

\* the first character of s outside 0-9a-f
FirstOffender(s) ==
  s[CHOOSE i \in 1..Len(s) :
      /\ s[i] \notin HexDigits
      /\ \A j \in 1..(i - 1) : s[j] \in HexDigits]

(* ------------------------------ claims -------------------------------- *)

\* C1: from_bytes(v) always yields a HexString, and as_bytes of it is v
\* itself: the same bytes, as many, in the same order.
C1_ByteRoundTrip ==
  /\ op = "from_bytes" => res.ok /\ h = <<res.val>>
  /\ (ctor = "from_bytes" /\ op = "as_bytes") => res.ok /\ res.val = input.val

C1_Witness ==
  /\ ctor = "from_bytes"
  /\ op = "as_bytes"
  /\ input.val = <<203, 187, 198, 225>>
  /\ res.val = <<203, 187, 198, 225>>

\* C2: for a text of even length over 0-9a-f (the empty one included)
\* from_string succeeds, and as_string and as_str of the result are the
\* text verbatim.
C2_TextRoundTrip ==
  (input.kind = "text" /\ Len(input.val) % 2 = 0 /\ AllHex(input.val)) =>
    /\ op = "from_string" => res.ok /\ h = <<input.val>>
    /\ (ctor = "from_string" /\ op \in {"as_string", "as_str"}) =>
         res.ok /\ res.val = input.val

C2_Witness ==
  /\ ctor = "from_string"
  /\ op = "as_str"
  /\ input.val = string_repr
  /\ res.val = string_repr

\* C3: every HexString a constructor yields holds a text of even length
\* made of characters 0-9 and a-f only.
C3_ConstructionInvariant ==
  h # <<>> => Len(h[1]) % 2 = 0 /\ AllHex(h[1])

C3_Witness ==
  /\ ctor = "from_str"
  /\ h # <<>>
  /\ Len(h[1]) = MaxLen

\* C4: a text with an odd number of characters is refused by from_string
\* with InvalidStringLength, whatever its characters, and no HexString is
\* returned.
C4_OddCharCountRejected ==
  (op = "from_string" /\ Len(input.val) % 2 = 1) =>
    ~res.ok /\ res.err = "InvalidStringLength" /\ h = <<>>

\* C5: a text with an even number of characters, one of them outside
\* 0-9a-f, is refused by from_string with InvalidCharacter carrying the
\* first such character.
C5_FirstOffenderReported ==
  (op = "from_string" /\ Len(input.val) % 2 = 0 /\ ~AllHex(input.val)) =>
    /\ ~res.ok
    /\ res.err = "InvalidCharacter"
    /\ res.carried = <<FirstOffender(input.val)>>

\* C6 as stated: from_string("abcdefg") fails with InvalidCharacter('g').
C6_AbcdefgInvalidCharacter ==
  (op = "from_string" /\ input.val = abcdefg) =>
    ~res.ok /\ res.err = "InvalidCharacter" /\ res.carried = <<103>>

\* C6 amended: from_string("abcdefg") fails with InvalidStringLength, the
\* length check coming before the character scan, and returns no HexString.
C6_AbcdefgInvalidStringLength ==
  (op = "from_string" /\ input.val = abcdefg) =>
    ~res.ok /\ res.err = "InvalidStringLength" /\ res.carried = <<>> /\ h = <<>>

C6_Witness ==
  /\ op = "from_string"
  /\ input.val = abcdefg
  /\ ~res.ok

\* C7: from_bytes never panics, u8_to_hex_string never panics, and the text
\* of from_bytes(v) has 2*len(v) characters, character 2i the hex digit of
\* v[i] >> 4 and character 2i+1 the hex digit of v[i] & 0x0f (counting
\* from 0); [203,187,198,225] gives "cbbbc6e1" and the empty sequence the
\* empty text.
C7_FromBytesReference ==
  /\ op = "u8_to_hex_string" => res.ok
  /\ op = "from_bytes" =>
       /\ res.ok
       /\ Len(res.val) = 2 * Len(input.val)
       /\ \A i \in 1..Len(input.val) :
            /\ res.val[2 * i - 1] = HexDigitOf(input.val[i] \div 16)
            /\ res.val[2 * i] = HexDigitOf(input.val[i] % 16)
       /\ input.val = <<>> => res.val = <<>>
       /\ input.val = <<203, 187, 198, 225>> =>
            res.val = <<99, 98, 98, 98, 99, 54, 101, 49>>

C7_Witness ==
  /\ op = "from_bytes"
  /\ input.val = byte_repr
  /\ res.val = string_repr

\* C8: as_bytes of a HexString a constructor yielded never panics, every
\* chunk its loop takes has two characters, and it returns len(text)/2
\* bytes, byte i being (nibble(text[2i]) << 4) | nibble(text[2i+1]); the
\* empty HexString gives no bytes.
C8_AsBytesReference ==
  op = "as_bytes" =>
    /\ res.ok
    /\ \A k \in 1..Len(octets_of(h[1])) : Len(octets_of(h[1])[k]) = 2
    /\ Len(res.val) = Len(h[1]) \div 2
    /\ \A i \in 1..Len(res.val) :
         res.val[i] = 16 * NibbleOf(h[1][2 * i - 1]) + NibbleOf(h[1][2 * i])
    /\ h[1] = <<>> => res.val = <<>>

C8_Witness ==
  /\ op = "as_bytes"
  /\ ctor = "from_string"
  /\ h = <<string_repr>>
  /\ res.val = byte_repr

\* C9: parsing a text (from_str) has the outcome of from_string on it: the
\* same HexString, or the same error kind with the same carried character.
C9_ParseEquivalence ==
  op = "from_str" =>
    LET r == from_string(input.val)
    IN  /\ res.ok = r.ok
        /\ res.err = r.err
        /\ res.carried = r.carried
        /\ res.val = r.val
        /\ h = IF r.ok THEN <<r.val>> ELSE <<>>

C9_Witness ==
  /\ op = "from_str"
  /\ input.val = <<>>
  /\ res.ok

\* C10: nibble_to_hexchar takes 0..15 to characters of 0-9a-f which
\* hexchar_to_nibble takes back, hexchar_to_nibble takes the characters of
\* 0-9a-f to nibbles which nibble_to_hexchar takes back, nibble_to_hexchar
\* fails with InvalidNibble(n) for n > 15 and hexchar_to_nibble fails with
\* InvalidCharacter(c) for any other character c.
C10_NibbleCodec ==
  /\ op = "nibble_to_hexchar" =>
       IF arg[1] <= 15
       THEN res.ok /\ res.val \in HexDigits
       ELSE ~res.ok /\ res.err = "InvalidNibble" /\ res.carried = arg
  /\ op = "hexchar_to_nibble" =>
       IF arg[1] \in HexDigits
       THEN res.ok /\ res.val \in 0..15
       ELSE ~res.ok /\ res.err = "InvalidCharacter" /\ res.carried = arg
  /\ (op \in {"nibble_to_hexchar", "hexchar_to_nibble"} /\ from # <<>>) =>
       res.ok /\ <<res.val>> = from

C10_Witness ==
  /\ op = "hexchar_to_nibble"
  /\ from = <<15>>
  /\ arg = <<102>>
  /\ res.ok
  /\ res.val = 15

====
